---- MODULE Spec2Model ----
(***************************************************************************)
(* Model of the marketplace backend (app/views.py, app/models.py): the     *)
(* JWT guard token_required, registration and login, and the product       *)
(* routes with their ownership check.                                      *)
(*                                                                         *)
(* Time is counted in ticks, TicksPerSecond ticks to the second, so that   *)
(* the float clock of time.time() has sub-second values.  Strings are TLA+ *)
(* strings, except e-mail addresses and the Authorization header prefix,   *)
(* which are sequences of one-character strings so that the regular        *)
(* expressions of the code can be evaluated on them.                       *)
(*                                                                         *)
(* jwt, bcrypt, schema and the database are libraries: jwt.decode is       *)
(* modelled as PyJWT 2.5 and later behave (a token is expired when         *)
(* int(exp) <= now), a signature as a record naming its key, algorithm and *)
(* payload, a bcrypt hash as its salt and password.                        *)
(*                                                                         *)
(* Spec is the whole program with requests handled one at a time.          *)
(* SpecGuard and SpecShop are parts of it: SpecGuard runs the clock and    *)
(* sends every header to every guarded route with one body, SpecShop keeps *)
(* the clock still and sends every body.  SpecRace splits POST /register   *)
(* at its existence check and runs two workers through it.                 *)
(***************************************************************************)
EXTENDS Integers, Sequences, FiniteSets, TLC

\* ---------------------------------------------------------------- bounds
TicksPerSecond == 2
MaxAdvance == 2
MaxProducts == 1
MaxTokens == 2

\* ------------------------------------------------------------- constants
SECOND == 1
MINUTE == 60 * SECOND
HOUR == 60 * MINUTE

JWT_ALGORITHM == "RS256"
JWT_PRIVATE_KEY == "server-private"
JWT_PUBLIC_KEY == "server-public"

NULL == "NULL"

VARIABLES
    users,      \* table User: set of rows
    products,   \* table Product: product_id -> row or NULL
    now,        \* time.time(), in ticks
    advances,   \* number of clock steps taken (bounds the run)
    issued,     \* every token create_token has returned
    pc,         \* per worker: the POST /register request it is inside of
    resp        \* the last request handled and its response

vars == <<users, products, now, advances, issued, pc, resp>>

\* ------------------------------------------------------------ JSON values
JNull == [t |-> "null", v |-> "null"]
JStr(s) == [t |-> "str", v |-> s]
JNum(n) == [t |-> "num", v |-> n]
JBool(b) == [t |-> "bool", v |-> b]
JList == [t |-> "list", v |-> "list"]
JObj(f) == [t |-> "obj", v |-> f]

\* float("7") and int("7") parse a numeral; other strings raise ValueError
Numerals == ("7" :> 7) @@ ("-1" :> (0 - 1))

\* dict.copy / list.copy exist; None, numbers and strings have no copy method
HasCopy(j) == j.t \in {"obj", "list"}

\* ------------------------------------------------------------- is_email
Lower == {"a","b","c","d","e","f","g","h","i","j","k","l","m",
          "n","o","p","q","r","s","t","u","v","w","x","y","z"}
Upper == {"A","B","C","D","E","F","G","H","I","J","K","L","M",
          "N","O","P","Q","R","S","T","U","V","W","X","Y","Z"}
Digit == {"0","1","2","3","4","5","6","7","8","9"}
WordChar == Lower \cup Upper \cup Digit \cup {"_"}
LocalChar == Lower \cup Upper \cup Digit \cup {".", "_", "%", "+", "-"}
DomainChar == Lower \cup Upper \cup Digit \cup {".", "-"}
TldChar == Lower \cup Upper \cup {"|"}

AllIn(s, lo, hi, cls) == \A i \in lo..hi : s[i] \in cls

\* re.fullmatch(EMAIL_REGEX, s): \b local+ @ domain+ \. tld{2,} \b
is_email(s) ==
    /\ Len(s) > 0
    /\ s[1] \in WordChar
    /\ s[Len(s)] \in WordChar
    /\ \E at \in 2..Len(s) : \E dot \in (at + 2)..Len(s) :
          /\ s[at] = "@"
          /\ s[dot] = "."
          /\ AllIn(s, 1, at - 1, LocalChar)
          /\ AllIn(s, at + 1, dot - 1, DomainChar)
          /\ Len(s) - dot >= 2
          /\ AllIn(s, dot + 1, Len(s), TldChar)

\* --------------------------------------------------------------- schemas
\* schema.And(str, len)
NonEmptyStr(j) == j.t = "str" /\ j.v # ""
\* schema.And(str, len, is_email)
EmailStr(j) == j.t = "str" /\ Len(j.v) > 0 /\ is_email(j.v)
\* schema.Use(float) / schema.Use(int): whether float(x) / int(x) returns
CanUseNumber(j) ==
    \/ j.t \in {"num", "bool"}
    \/ j.t = "str" /\ j.v \in DOMAIN Numerals
\* ... and the number it returns
UseNumber(j) ==
    IF j.t = "num" THEN j.v
    ELSE IF j.t = "bool" THEN (IF j.v = "true" THEN 1 ELSE 0)
    ELSE Numerals[j.v]
\* schema.And(schema.Use(float), lambda i: i >= 0)
NumberGe0(j) == CanUseNumber(j) /\ UseNumber(j) >= 0

FieldOK(kind, j) ==
    CASE kind = "str" -> NonEmptyStr(j)
      [] kind = "email" -> EmailStr(j)
      [] kind = "number" -> NumberGe0(j)

FieldValue(kind, j) == IF kind = "number" THEN UseNumber(j) ELSE j.v

REGISTER_SCHEMA ==
    [user_name |-> "str", password |-> "str", phone |-> "str", email |-> "email"]

LOGIN_SCHEMA == [user_name |-> "str", password |-> "str"]

CREATE_PRODUCT_SCHEMA ==
    [product_name |-> "str", picture |-> "str", selling_price |-> "number",
     description |-> "str", category_id |-> "number"]

UPDATE_PRODUCT_SCHEMA ==
    [product_id |-> "number", product_name |-> "str", picture |-> "str",
     selling_price |-> "number", description |-> "str", category_id |-> "number"]

\* Schema(dict).validate(data): every key of the schema is required, no other
\* key is allowed, and every value passes its validator
SchemaValid(sch, j) ==
    /\ j.t = "obj"
    /\ DOMAIN j.v = DOMAIN sch
    /\ \A k \in DOMAIN sch : FieldOK(sch[k], j.v[k])

\* the validated data: each value after its Use(...) conversion
Validated(sch, j) == [k \in DOMAIN sch |-> FieldValue(sch[k], j.v[k])]

\* ------------------------------------------------------------------ bcrypt
\* bcrypt.hashpw(password, salt): the salt is embedded in the hash
hashpw(password, salt) == [salt |-> salt, digest |-> <<salt, password>>]
\* bcrypt.checkpw(password, hash): rehash with the embedded salt and compare
checkpw(password, hash) == hashpw(password, hash.salt) = hash
\* bcrypt.gensalt(): a salt no stored hash uses
gensalt(rows) == Cardinality(rows) + 1
\* uuid.uuid4(): an id no stored row uses
uuid4(rows) == Cardinality(rows) + 1

\* --------------------------------------------------------------------- JWT
NoPayload ==
    [iat |-> 0, exp |-> 0, user_id |-> 0, user_name |-> "", phone |-> "",
     role |-> 0, email |-> <<>>, profile_picture |-> NULL]
NoSig == [key |-> "", alg |-> "", payload |-> NoPayload]

\* an idealised signature: it names the key, the algorithm and the signed bytes
Sign(key, alg, payload) == [key |-> key, alg |-> alg, payload |-> payload]

\* jwt.encode(payload, key, algorithm)
jwt_encode(payload, key, alg) ==
    [text |-> "jwt", alg |-> alg, payload |-> payload, sig |-> Sign(key, alg, payload)]

EmptyToken == [text |-> "", alg |-> "", payload |-> NoPayload, sig |-> NoSig]
GarbageToken == [text |-> "garbage", alg |-> "", payload |-> NoPayload, sig |-> NoSig]

PublicOf(private) ==
    CASE private = "server-private" -> "server-public"
      [] private = "attacker-private" -> "attacker-public"
      [] OTHER -> "no-such-key"

\* the signature check of jwt.decode for the token's algorithm
SignatureValid(tok, key) ==
    /\ tok.sig.alg = tok.alg
    /\ tok.sig.payload = tok.payload
    /\ CASE tok.alg = "RS256" -> PublicOf(tok.sig.key) = key
         [] tok.alg = "HS256" -> tok.sig.key = key
         [] OTHER -> FALSE

\* int(payload["exp"]), int(payload["iat"]): whole seconds, as ticks
IntSeconds(ticks) == (ticks \div TicksPerSecond) * TicksPerSecond

\* jwt.decode(token, key, algorithms=[...]) at clock value t: "ok" or the
\* exception it raises
jwt_decode_error(tok, key, algorithms, t) ==
    IF tok.text # "jwt" THEN "DecodeError"
    ELSE IF tok.alg \notin algorithms THEN "InvalidAlgorithmError"
    ELSE IF ~SignatureValid(tok, key) THEN "InvalidSignatureError"
    ELSE IF IntSeconds(tok.payload.iat) > t THEN "ImmatureSignatureError"
    ELSE IF IntSeconds(tok.payload.exp) <= t THEN "ExpiredSignatureError"
    ELSE "ok"

\* a variant: "exp": now(), the lifetime left out
create_token_no_lifetime(expires_in, claims, t) ==
    jwt_encode([iat |-> t, exp |-> t,
                user_id |-> claims.user_id, user_name |-> claims.user_name,
                phone |-> claims.phone, role |-> claims.role,
                email |-> claims.email,
                profile_picture |-> claims.profile_picture],
               JWT_PRIVATE_KEY, JWT_ALGORITHM)

\* create_token(expires_in, **kwargs) called at clock value t
create_token(expires_in, claims, t) ==
    jwt_encode([iat |-> t, exp |-> t + expires_in * TicksPerSecond,
                user_id |-> claims.user_id, user_name |-> claims.user_name,
                phone |-> claims.phone, role |-> claims.role,
                email |-> claims.email,
                profile_picture |-> claims.profile_picture],
               JWT_PRIVATE_KEY, JWT_ALGORITHM)

\* ------------------------------------------------------------ token_required
BearerLit == <<"B", "e", "a", "r", "e", "r", " ">>

NoHeader == [present |-> FALSE, prefix |-> <<>>, token |-> EmptyToken]
Header(prefix, tok) == [present |-> TRUE, prefix |-> prefix, token |-> tok]

BearerAt(h, i) ==
    /\ i + Len(BearerLit) - 1 <= Len(h.prefix)
    /\ SubSeq(h.prefix, i, i + Len(BearerLit) - 1) = BearerLit

\* a variant: re.search, which finds the pattern anywhere in the header
BearerSearch(h) ==
    IF \E i \in 1..Len(h.prefix) : BearerAt(h, i)
    THEN CHOOSE i \in 1..Len(h.prefix) :
            BearerAt(h, i) /\ \A j \in 1..(i - 1) : ~BearerAt(h, j)
    ELSE 0

\* re.match(r"Bearer (.*)", header): the pattern is anchored at the start of
\* the header.  Where the match starts, 0 for no match.
BearerMatch(h) == IF BearerAt(h, 1) THEN 1 ELSE 0

\* the group (.*): what follows "Bearer "; characters between it and the
\* token make a string that is no JWT
BearerGroup(h) ==
    IF BearerMatch(h) + Len(BearerLit) - 1 = Len(h.prefix) THEN h.token
    ELSE GarbageToken

\* a variant: jwt.decode left to trust the algorithm the token names
token_required_any_alg(h, t) ==
    IF ~h.present THEN [ok |-> FALSE, g |-> NoPayload, why |-> "no header"]
    ELSE IF BearerMatch(h) = 0 THEN [ok |-> FALSE, g |-> NoPayload, why |-> "no match"]
    ELSE LET token == BearerGroup(h)
             err == jwt_decode_error(token, JWT_PUBLIC_KEY, {"RS256", "HS256", "none"}, t)
         IN  IF err # "ok" THEN [ok |-> FALSE, g |-> NoPayload, why |-> err]
             ELSE [ok |-> TRUE, g |-> token.payload, why |-> "ok"]

\* the guard of token_required at clock value t: whether the wrapped handler
\* is invoked, with which flask.g.token, and why not
token_required(h, t) ==
    IF ~h.present THEN [ok |-> FALSE, g |-> NoPayload, why |-> "no header"]
    ELSE IF BearerMatch(h) = 0 THEN [ok |-> FALSE, g |-> NoPayload, why |-> "no match"]
    ELSE LET token == BearerGroup(h)
             err == jwt_decode_error(token, JWT_PUBLIC_KEY, {JWT_ALGORITHM}, t)
         IN  IF err # "ok" THEN [ok |-> FALSE, g |-> NoPayload, why |-> err]
             ELSE [ok |-> TRUE, g |-> token.payload, why |-> "ok"]

\* ------------------------------------------------------------------ tables
UserRole_user == 0

\* User.to_dict(): every column but hash
to_dict(user) ==
    [user_id |-> user.user_id, user_name |-> user.user_name, phone |-> user.phone,
     role |-> user.role, email |-> user.email,
     profile_picture |-> user.profile_picture]

\* a variant: the column without unique=True
EmailNotUnique(rows, user) == TRUE

\* db.Column(db.VARCHAR(100), unique=True): the insert of a row is refused when
\* a stored row has its email
EmailUnique(rows, user) == \A u \in rows : u.email # user.email

\* a variant: the handler without its existence check
EmailNeverExists(rows, email) == FALSE

\* db.session.query(User).filter(User.email == email).first() is not None
EmailExists(rows, email) == \E u \in rows : u.email = email

\* db.session.get(Product, product_id): the rows with that primary key
ProductRows(rows, product_id) == {p \in rows : p.product_id = product_id}

\* the autoincrement primary key of a new Product row
NextProductId(rows) ==
    IF rows = {} THEN 1
    ELSE 1 + CHOOSE m \in {p.product_id : p \in rows} :
                 \A p \in rows : p.product_id <= m

\* a variant: the handlers without their ownership check
NoOwnerCheck(product, current_user_id) == FALSE

\* product.user_id != current_user_id
PermissionDenied(product, current_user_id) == product.user_id # current_user_id

\* ---------------------------------------------------------------- responses
NoReq == [none |-> TRUE]
NoResp ==
    [op |-> "idle", status |-> 0, ran |-> FALSE, g |-> NoPayload,
     out |-> EmptyToken, hdr |-> "-", tok |-> EmptyToken, forged |-> "-",
     why |-> "-", body |-> "-", req |-> NoReq]

\* what a request looked like, recorded with its response -------------------
\* the Authorization header as the client sent it
HeaderClass(h) ==
    IF ~h.present THEN "absent"
    ELSE IF Len(h.prefix) < Len(BearerLit) THEN "no-bearer-prefix"
    ELSE IF \E i \in 1..Len(BearerLit) : h.prefix[i] # BearerLit[i]
         THEN "no-bearer-prefix"
    ELSE IF Len(h.prefix) = Len(BearerLit) /\ h.token.text = "" THEN "empty-token"
    ELSE "bearer"

\* the token a client sent, against the tokens the server has issued
TokenKind(tok) ==
    IF tok \in issued THEN "issued"
    ELSE IF tok.text # "jwt" THEN "malformed"
    ELSE IF tok.alg # JWT_ALGORITHM THEN "other-alg"
    ELSE IF tok.sig.key # JWT_PRIVATE_KEY THEN "other-key"
    ELSE IF tok.sig.payload # tok.payload THEN "altered"
    ELSE "unissued"

JsonTypeOf(kind) == IF kind = "number" THEN "num" ELSE "str"

ValueOK(kind, j) ==
    /\ j.t = JsonTypeOf(kind)
    /\ CASE kind = "number" -> j.v >= 0
         [] kind = "str" -> j.v # ""
         [] kind = "email" -> is_email(j.v)

\* the JSON body as the client sent it, against the shape a route documents
BodyClass(sch, j) ==
    IF j.t = "null" THEN "null"
    ELSE IF j.t = "list" THEN "list"
    ELSE IF j.t # "obj" THEN "scalar"
    ELSE IF \E k \in DOMAIN j.v : k \notin DOMAIN sch THEN "extra-field"
    ELSE IF \E k \in DOMAIN j.v :
                j.v[k].t # JsonTypeOf(sch[k]) /\ ~(sch[k] = "number" /\ CanUseNumber(j.v[k]))
         THEN "wrong-type"
    ELSE IF \E k \in DOMAIN j.v : j.v[k].t # JsonTypeOf(sch[k]) THEN "coercible"
    ELSE IF \E k \in DOMAIN j.v : ~ValueOK(sch[k], j.v[k]) THEN "bad-value"
    ELSE IF DOMAIN j.v = DOMAIN sch THEN "valid"
    ELSE IF "product_id" \in DOMAIN j.v THEN "partial"
    ELSE "missing-field"

\* the values the client sent, for a body of well-formed values
Sent(sch, j) ==
    IF BodyClass(sch, j) \in {"valid", "partial"}
    THEN [k \in DOMAIN j.v |-> j.v[k].v]
    ELSE NoReq

Request(op, sch, body) ==
    [NoResp EXCEPT !.op = op, !.body = BodyClass(sch, body), !.req = Sent(sch, body)]

Guarded(op, h, a) ==
    [NoResp EXCEPT !.op = op, !.hdr = HeaderClass(h), !.why = a.why,
        !.forged = IF h.present /\ BearerMatch(h) # 0 THEN TokenKind(BearerGroup(h)) ELSE "-",
        !.tok = IF h.present /\ BearerMatch(h) # 0 /\ BearerGroup(h) \in issued
                THEN BearerGroup(h) ELSE EmptyToken]

GuardedBody(op, h, a, sch, body) ==
    [Guarded(op, h, a) EXCEPT !.body = BodyClass(sch, body), !.req = Sent(sch, body)]

\* the model keeps at most MaxTokens issued tokens
CanIssue(token) == Cardinality(issued \cup {token}) <= MaxTokens

Idle == [at |-> "idle", request |-> NoReq]
Workers == {1, 2}

\* ---------------------------------------------------------- POST /register
\* lines 73-78: the body is rejected
RegisterRejected(body) == body.t # "obj" \/ ~SchemaValid(REGISTER_SCHEMA, body)

\* lines 88-94: the row to store
NewUser(request, rows) ==
    [user_id |-> uuid4(rows), email |-> request.email, phone |-> request.phone,
     role |-> UserRole_user, user_name |-> request.user_name,
     profile_picture |-> NULL,
     hash |-> hashpw(request.password, gensalt(rows))]

\* lines 95-99: merge, commit, re-read, answer with a token.  A commit the
\* unique index refuses raises IntegrityError, which nothing catches: 500.
RegisterCommit(request, answer) ==
    LET user == NewUser(request, users)
        token == create_token(HOUR, to_dict(user), now)
    IN  IF ~EmailUnique(users, user)
        THEN /\ resp' = [answer EXCEPT !.status = 500]
             /\ UNCHANGED <<users, issued>>
        ELSE /\ CanIssue(token)
             /\ users' = users \cup {user}
             /\ issued' = issued \cup {token}
             /\ resp' = [answer EXCEPT !.status = 200, !.out = token]

\* the whole handler, run without interruption
register_route(body) ==
    /\ resp = NoResp
    /\ LET answer == Request("register", REGISTER_SCHEMA, body)
       IN  IF RegisterRejected(body)
           THEN /\ resp' = [answer EXCEPT !.status = 400]
                /\ UNCHANGED <<users, issued>>
           ELSE LET request == Validated(REGISTER_SCHEMA, body)
                IN  IF EmailExists(users, request.email)
                    THEN /\ resp' = [answer EXCEPT !.status = 409]
                         /\ UNCHANGED <<users, issued>>
                    ELSE RegisterCommit(request, answer)
    /\ UNCHANGED <<products, now, advances, pc>>

\* the handler run by worker w up to and including the existence check of
\* line 85 ...
register_check(w, body) ==
    /\ resp = NoResp
    /\ pc[w].at = "idle"
    /\ LET answer == Request("register", REGISTER_SCHEMA, body)
       IN  IF RegisterRejected(body)
           THEN /\ resp' = [answer EXCEPT !.status = 400]
                /\ pc' = pc
           ELSE LET request == Validated(REGISTER_SCHEMA, body)
                IN  IF EmailExists(users, request.email)
                    THEN /\ resp' = [answer EXCEPT !.status = 409]
                         /\ pc' = pc
                    ELSE /\ pc' = [pc EXCEPT ![w] = [at |-> "checked", request |-> request]]
                         /\ resp' = NoResp
    /\ UNCHANGED <<users, products, now, advances, issued>>

\* ... and from line 88 to its end
register_commit(w) ==
    /\ resp = NoResp
    /\ pc[w].at = "checked"
    /\ RegisterCommit(pc[w].request,
                      [NoResp EXCEPT !.op = "register", !.body = "valid",
                                     !.req = pc[w].request])
    /\ pc' = [pc EXCEPT ![w] = Idle]
    /\ UNCHANGED <<products, now, advances>>

\* ------------------------------------------------------------- POST /login
LoginRejected(body) == body.t # "obj" \/ ~SchemaValid(LOGIN_SCHEMA, body)

\* query(User).filter(User.user_name == user_name): first() takes one of the
\* matching rows; the query has no ORDER BY, so which one is the database's choice
UsersNamed(rows, user_name) == {u \in rows : u.user_name = user_name}

login_route(body) ==
    /\ resp = NoResp
    /\ LET answer == Request("login", LOGIN_SCHEMA, body)
       IN  IF LoginRejected(body)
           THEN /\ resp' = [answer EXCEPT !.status = 400]
                /\ issued' = issued
           ELSE LET request == Validated(LOGIN_SCHEMA, body)
                    found == UsersNamed(users, request.user_name)
                IN  IF found = {}
                    THEN /\ resp' = [answer EXCEPT !.status = 401]
                         /\ issued' = issued
                    ELSE \E user \in found :
                           LET token == create_token(HOUR, to_dict(user), now)
                           IN  IF ~checkpw(request.password, user.hash)
                               THEN /\ resp' = [answer EXCEPT !.status = 401]
                                    /\ issued' = issued
                               ELSE /\ CanIssue(token)
                                    /\ issued' = issued \cup {token}
                                    /\ resp' = [answer EXCEPT !.status = 200, !.out = token]
    /\ UNCHANGED <<users, products, now, advances, pc>>

\* -------------------------------------------------------- GET /currentUser
current_user_route(h) ==
    /\ resp = NoResp
    /\ LET a == token_required(h, now)
           answer == Guarded("currentUser", h, a)
       IN  IF ~a.ok
           THEN resp' = [answer EXCEPT !.status = 403]
           ELSE \* db.session.get(User, id) is None for an id no row has, and
                \* None.to_dict() raises
                IF \E u \in users : u.user_id = a.g.user_id
                THEN resp' = [answer EXCEPT !.status = 200, !.ran = TRUE, !.g = a.g]
                ELSE resp' = [answer EXCEPT !.status = 500, !.ran = TRUE, !.g = a.g]
    /\ UNCHANGED <<users, products, now, advances, issued, pc>>

\* ----------------------------------------------------------- GET /category
get_categories_route(h) ==
    /\ resp = NoResp
    /\ LET a == token_required(h, now)
           answer == Guarded("category", h, a)
       IN  IF ~a.ok
           THEN resp' = [answer EXCEPT !.status = 403]
           ELSE resp' = [answer EXCEPT !.status = 200, !.ran = TRUE, !.g = a.g]
    /\ UNCHANGED <<users, products, now, advances, issued, pc>>

\* ----------------------------------------------------------- POST /product
create_product_route(h, body) ==
    /\ resp = NoResp
    /\ LET a == token_required(h, now)
           answer == GuardedBody("createProduct", h, a, CREATE_PRODUCT_SCHEMA, body)
           ran == [answer EXCEPT !.ran = TRUE, !.g = a.g]
       IN  IF ~a.ok
           THEN resp' = [answer EXCEPT !.status = 403] /\ products' = products
           ELSE IF ~HasCopy(body)
           THEN resp' = [ran EXCEPT !.status = 500] /\ products' = products
           ELSE IF ~SchemaValid(CREATE_PRODUCT_SCHEMA, body)
           THEN resp' = [ran EXCEPT !.status = 400] /\ products' = products
           ELSE LET request == Validated(CREATE_PRODUCT_SCHEMA, body)
                    product ==
                        [product_id |-> NextProductId(products),
                         product_name |-> request.product_name,
                         picture |-> request.picture,
                         selling_price |-> request.selling_price,
                         description |-> request.description,
                         available |-> 0,
                         category_id |-> request.category_id,
                         user_id |-> a.g.user_id]
                IN  /\ Cardinality(products) < MaxProducts
                    /\ products' = products \cup {product}
                    /\ resp' = [ran EXCEPT !.status = 200]
    /\ UNCHANGED <<users, now, advances, issued, pc>>

\* ------------------------------------------------------------ PUT /product
UpdatedColumns ==
    {"product_name", "picture", "selling_price", "description", "category_id"}

\* lines 218-228: every key of the request that names a column is assigned
UpdateFields(product, request) ==
    [c \in DOMAIN product |->
        IF c \in UpdatedColumns /\ c \in DOMAIN request THEN request[c] ELSE product[c]]

update_product_route(h, body) ==
    /\ resp = NoResp
    /\ LET a == token_required(h, now)
           answer == GuardedBody("updateProduct", h, a, UPDATE_PRODUCT_SCHEMA, body)
           ran == [answer EXCEPT !.ran = TRUE, !.g = a.g]
       IN  IF ~a.ok
           THEN resp' = [answer EXCEPT !.status = 403] /\ products' = products
           ELSE IF ~HasCopy(body)
           THEN resp' = [ran EXCEPT !.status = 500] /\ products' = products
           ELSE IF ~SchemaValid(UPDATE_PRODUCT_SCHEMA, body)
           THEN resp' = [ran EXCEPT !.status = 400] /\ products' = products
           ELSE LET request == Validated(UPDATE_PRODUCT_SCHEMA, body)
                    found == ProductRows(products, request.product_id)
                    seen == ran
                IN  IF found = {}
                    THEN resp' = [seen EXCEPT !.status = 404] /\ products' = products
                    ELSE LET product == CHOOSE p \in found : TRUE
                         IN  IF PermissionDenied(product, a.g.user_id)
                             THEN /\ resp' = [seen EXCEPT !.status = 401]
                                  /\ products' = products
                             ELSE /\ products' = (products \ {product})
                                          \cup {UpdateFields(product, request)}
                                  /\ resp' = [seen EXCEPT !.status = 200]
    /\ UNCHANGED <<users, now, advances, issued, pc>>

\* --------------------------------------------------- DELETE /product/<id>
delete_product_route(h, product_id) ==
    /\ resp = NoResp
    /\ LET a == token_required(h, now)
           answer == [Guarded("deleteProduct", h, a) EXCEPT
                          !.req = [product_id |-> product_id]]
           seen == [answer EXCEPT !.ran = TRUE, !.g = a.g]
           found == ProductRows(products, product_id)
       IN  IF ~a.ok
           THEN resp' = [answer EXCEPT !.status = 403] /\ products' = products
           ELSE IF found = {}
           THEN resp' = [seen EXCEPT !.status = 404] /\ products' = products
           ELSE LET product == CHOOSE p \in found : TRUE
                IN  IF PermissionDenied(product, a.g.user_id)
                    THEN resp' = [seen EXCEPT !.status = 401] /\ products' = products
                    ELSE /\ products' = products \ {product}
                         /\ resp' = [seen EXCEPT !.status = 200]
    /\ UNCHANGED <<users, now, advances, issued, pc>>

\* ---------------------------------------------------------------- the clock
\* time passes between requests: a tick, or all but a tick of a token's life
Jumps == {1, HOUR * TicksPerSecond - 1}

Advance(d) ==
    /\ resp = NoResp
    /\ advances < MaxAdvance
    /\ now' = now + d
    /\ advances' = advances + 1
    /\ UNCHANGED <<users, products, issued, pc, resp>>

\* the response leaves the server; the next request is taken after that
Send ==
    /\ resp # NoResp
    /\ resp' = NoResp
    /\ UNCHANGED <<users, products, now, advances, issued, pc>>

\* ----------------------------------------------------- what clients may send
Email1 == <<"a", "@", "b", ".", "c", "o", "m">>
Email2 == <<"c", "@", "d", ".", "c", "o">>
NoTld == <<"a", "@", "b">>

RegisterBody(name, password, phone, email) ==
    JObj([user_name |-> JStr(name), password |-> JStr(password),
          phone |-> JStr(phone), email |-> JStr(email)])

ValidRegisterBodies ==
    {RegisterBody("alice", "pw123456", "555", Email1),
     RegisterBody("alice", "hunter22", "555", Email2),
     RegisterBody("bob", "hunter22", "777", Email1)}

RegisterBodies ==
    ValidRegisterBodies \cup
    {JNull, JNum(5), JList,
     JObj([user_name |-> JStr("alice"), password |-> JStr("pw123456"),
           email |-> JStr(Email1)]),
     JObj([user_name |-> JStr("alice"), password |-> JNum(5),
           phone |-> JStr("555"), email |-> JStr(Email1)]),
     RegisterBody("", "pw123456", "555", Email1),
     RegisterBody("alice", "pw123456", "555", NoTld)}

LoginBody(name, password) ==
    JObj([user_name |-> JStr(name), password |-> JStr(password)])

LoginBodies ==
    {LoginBody(n, p) : n \in {"alice", "bob"}, p \in {"pw123456", "hunter22"}} \cup
    {JNull, JStr("alice"), JList,
     JObj([user_name |-> JStr("alice")]),
     JObj([user_name |-> JStr("alice"), password |-> JNum(5)])}

Restrict(f, keys) == [k \in keys |-> f[k]]

ProductFields(n) ==
    [product_name |-> JStr(IF n = 1 THEN "lamp" ELSE "desk"),
     picture |-> JStr(IF n = 1 THEN "lamp.png" ELSE "desk.png"),
     selling_price |-> JNum(10 * n),
     description |-> JStr(IF n = 1 THEN "a lamp" ELSE "a desk"),
     category_id |-> JNum(n)]

CreateBodies ==
    {JObj(ProductFields(n)) : n \in {1, 2}} \cup
    {JNull, JNum(5), JList,
     JObj(Restrict(ProductFields(1), {"product_name", "picture", "selling_price"})),
     JObj([ProductFields(1) EXCEPT !.product_name = JNum(5)]),
     JObj([ProductFields(1) EXCEPT !.selling_price = JStr("7")]),
     JObj([ProductFields(1) EXCEPT !.selling_price = JNum(0 - 1)])}

ProductIds == 1..(MaxProducts + 1)

UpdateFull(id, n) == [product_id |-> JNum(id)] @@ ProductFields(n)

UpdateBodies ==
    {JObj(UpdateFull(id, n)) : id \in ProductIds, n \in {1, 2}} \cup
    {JObj(Restrict(UpdateFull(id, 2), keys)) : id \in {1},
        keys \in {{"product_id", "product_name"},
                  {"product_id", "selling_price", "description"},
                  {"product_id"}}} \cup
    {JNull, JStr("lamp"), JList,
     JObj(ProductFields(2)),
     JObj([UpdateFull(1, 2) EXCEPT !.description = JList]),
     JObj([UpdateFull(1, 2) EXCEPT !.product_id = JStr("7")])}

\* what someone without the server's private key can make of a token
Forgeries(tok) ==
    {[tok EXCEPT !.payload.user_id = id] :
        id \in (1..(Cardinality(users) + 1)) \ {tok.payload.user_id}} \cup
    {[tok EXCEPT !.payload.exp = tok.payload.exp + HOUR * TicksPerSecond],
     jwt_encode(tok.payload, "attacker-private", JWT_ALGORITHM),
     jwt_encode(tok.payload, JWT_PUBLIC_KEY, "HS256"),
     [tok EXCEPT !.alg = "none", !.sig = NoSig]}

Tokens == issued \cup UNION {Forgeries(tok) : tok \in issued}
              \cup {EmptyToken, GarbageToken}

BadPrefixes ==
    {<<>>,
     <<"b", "e", "a", "r", "e", "r", " ">>,
     <<"B", "e", "a", "r", "e", "r">>,
     <<"X", " ", "B", "e", "a", "r", "e", "r", " ">>,
     <<"B", "e", "a", "r", "e", "r", " ", " ">>}

IssuedHeaders == {Header(BearerLit, tok) : tok \in issued}

Headers ==
    {NoHeader} \cup {Header(BearerLit, tok) : tok \in Tokens}
               \cup {Header(prefix, tok) : prefix \in BadPrefixes, tok \in issued}

\* every header with a well-formed body, every body with a well-formed header
CreateRequests ==
    (Headers \X {JObj(ProductFields(1))}) \cup (IssuedHeaders \X CreateBodies)
UpdateRequests ==
    (Headers \X {JObj(UpdateFull(1, 1))}) \cup (IssuedHeaders \X UpdateBodies)
DeleteRequests ==
    (Headers \X {1}) \cup (IssuedHeaders \X ProductIds)

\* ---------------------------------------------------------- specifications
Init ==
    /\ users = {}
    /\ products = {}
    /\ now = 0
    /\ advances = 0
    /\ issued = {}
    /\ pc = [w \in Workers |-> Idle]
    /\ resp = NoResp

\* the whole program, requests handled one at a time
Next ==
    \/ \E body \in RegisterBodies : register_route(body)
    \/ \E body \in LoginBodies : login_route(body)
    \/ \E h \in Headers : current_user_route(h)
    \/ \E h \in Headers : get_categories_route(h)
    \/ \E r \in CreateRequests : create_product_route(r[1], r[2])
    \/ \E r \in UpdateRequests : update_product_route(r[1], r[2])
    \/ \E r \in DeleteRequests : delete_product_route(r[1], r[2])
    \/ \E d \in Jumps : Advance(d)
    \/ Send

Spec == Init /\ [][Next]_vars

\* the guard under a running clock: registrations, and every guarded route
\* with every header and one well-formed body
NextGuard ==
    \/ \E body \in RegisterBodies : register_route(body)
    \/ \E h \in Headers : current_user_route(h)
    \/ \E h \in Headers : get_categories_route(h)
    \/ \E h \in Headers : create_product_route(h, JObj(ProductFields(1)))
    \/ \E h \in Headers : update_product_route(h, JObj(UpdateFull(1, 1)))
    \/ \E h \in Headers : delete_product_route(h, 1)
    \/ \E d \in Jumps : Advance(d)
    \/ Send

SpecGuard == Init /\ [][NextGuard]_vars

\* the routes with every body, the clock standing still
NextShop ==
    \/ \E body \in RegisterBodies : register_route(body)
    \/ \E body \in LoginBodies : login_route(body)
    \/ \E h \in Headers : current_user_route(h)
    \/ \E h \in Headers : get_categories_route(h)
    \/ \E r \in CreateRequests : create_product_route(r[1], r[2])
    \/ \E r \in UpdateRequests : update_product_route(r[1], r[2])
    \/ \E r \in DeleteRequests : delete_product_route(r[1], r[2])
    \/ Send

SpecShop == Init /\ [][NextShop]_vars

\* two workers inside POST /register at once, with logins in between
NextRace ==
    \/ \E w \in Workers : \E body \in RegisterBodies : register_check(w, body)
    \/ \E w \in Workers : register_commit(w)
    \/ \E body \in LoginBodies : login_route(body)
    \/ Send

SpecRace == Init /\ [][NextRace]_vars

\* ================================================================= claims
\* a step that handles a request (the response of the step is resp')
Handled == resp = NoResp /\ resp' # NoResp

DbUnchanged == users' = users /\ products' = products

\* the row a request names, in the table before the request
Named(rows, request) == {p \in rows : p.product_id = request.product_id}

\* a time in ticks, cut down to a whole second
WholeSecond(t) == t - (t % TicksPerSecond)

\* C1: a guarded route asked with no Authorization header, with a header that
\* does not start with "Bearer ", or with an empty token after "Bearer ",
\* answers 403 without running its handler and without changing a stored row.
C1_MalformedHeaderForbidden ==
    [][(Handled /\ resp'.hdr \in {"absent", "no-bearer-prefix", "empty-token"})
          => (resp'.status = 403 /\ ~resp'.ran /\ DbUnchanged)]_vars

C1_Witness ==
    /\ resp.op = "deleteProduct"
    /\ resp.hdr = "no-bearer-prefix"
    /\ resp.status = 403
    /\ products # {}

\* C2: on an existing product, PUT /product with a well-formed body and
\* DELETE /product/{id} answer 401 to a valid token of another user and leave
\* the table as it was; to the owner's token they answer 200 and the row takes
\* the values of the body, or is gone.
C2_OwnerOnly ==
    [][(/\ Handled
        /\ resp'.op \in {"updateProduct", "deleteProduct"}
        /\ resp'.ran
        /\ resp'.op = "updateProduct" => resp'.body = "valid"
        /\ Named(products, resp'.req) # {})
          => \A p \in Named(products, resp'.req) :
                IF resp'.g.user_id # p.user_id
                THEN resp'.status = 401 /\ products' = products
                ELSE /\ resp'.status = 200
                     /\ IF resp'.op = "deleteProduct"
                        THEN products' = products \ {p}
                        ELSE \E q \in products' :
                                /\ products' = (products \ {p}) \cup {q}
                                /\ q.product_id = p.product_id
                                /\ q.user_id = p.user_id
                                /\ q.available = p.available
                                /\ q.product_name = resp'.req.product_name
                                /\ q.picture = resp'.req.picture
                                /\ q.selling_price = resp'.req.selling_price
                                /\ q.description = resp'.req.description
                                /\ q.category_id = resp'.req.category_id]_vars

C2_Witness ==
    /\ resp.op = "updateProduct"
    /\ resp.status = 401
    /\ resp.ran
    /\ \E p \in products : p.product_id = resp.req.product_id /\ p.user_id # resp.g.user_id

C4_DuplicateEmailConflict ==
    [][(/\ Handled
        /\ resp'.op = "register"
        /\ resp'.body = "valid"
        /\ \E u \in users : u.email = resp'.req.email)
          => (resp'.status = 409 /\ users' = users)]_vars

C4_Witness ==
    /\ resp.op = "register"
    /\ resp.status = 409
    /\ \E u \in users : u.email = resp.req.email /\ u.user_name # resp.req.user_name

\* C5: however two POST /register requests with one email interleave, no two
\* stored users have the same email.
C5_EmailsUnique ==
    \A u1 \in users : \A u2 \in users : u1.email = u2.email => u1 = u2

C5_Witness ==
    /\ resp.op = "register"
    /\ resp.status = 500
    /\ \E u \in users : u.email = resp.req.email

\* C6 as claimed: PUT /product by the owner with product_id and any subset of
\* the other fields answers 200, sets the fields of the body and leaves the
\* other columns as they were.
C6_PartialUpdate ==
    [][(/\ Handled
        /\ resp'.op = "updateProduct"
        /\ resp'.ran
        /\ resp'.body \in {"valid", "partial"}
        /\ \E p \in Named(products, resp'.req) : p.user_id = resp'.g.user_id)
          => /\ resp'.status = 200
             /\ \A p \in Named(products, resp'.req) :
                  \E q \in products' :
                     /\ products' = (products \ {p}) \cup {q}
                     /\ \A c \in DOMAIN p :
                          q[c] = IF c \in DOMAIN resp'.req THEN resp'.req[c] ELSE p[c]]_vars

\* C7 as claimed: POST /register answers 200, 400 or 409, also to a request
\* whose insert the unique index refuses.
C7_RegisterStatuses ==
    resp.op = "register" => resp.status \in {200, 400, 409}

\* C8 as claimed: POST /register, POST /login and, with a valid token,
\* POST /product and PUT /product answer 400 to a body that is no JSON object,
\* misses a field or holds a value of the wrong type, and change no stored row.
C8_MalformedBodyBadRequest ==
    [][(/\ Handled
        /\ resp'.body \in {"null", "scalar", "list", "missing-field", "wrong-type"}
        /\ \/ resp'.op \in {"register", "login"}
           \/ resp'.op \in {"createProduct", "updateProduct"} /\ resp'.forged = "issued"
                  /\ resp'.why = "ok")
          => (resp'.status = 400 /\ DbUnchanged)]_vars

\* C9: a guarded handler runs only with flask.g.token the claims of a token
\* that create_token issued and that has not expired; a token signed with
\* another key, altered after issue or naming another algorithm answers 403
\* and its handler does not run.
C9_OnlyIssuedTokens ==
    /\ resp.ran =>
          \E tok \in issued :
             /\ resp.g = tok.payload
             /\ tok.sig = [key |-> JWT_PRIVATE_KEY, alg |-> JWT_ALGORITHM,
                           payload |-> tok.payload]
             /\ now < tok.payload.exp
    /\ resp.forged \in {"other-key", "altered", "other-alg", "malformed"} =>
          resp.status = 403 /\ ~resp.ran

C9_Witness ==
    /\ resp.op = "updateProduct"
    /\ resp.forged = "other-alg"
    /\ resp.status = 403
    /\ \E p \in products : p.product_id = resp.req.product_id

\* C10 as claimed: every registered user logs in with their name and password:
\* 200, with a token for their user_id.
C10_EveryUserLogsIn ==
    (resp.op = "login" /\ resp.body = "valid") =>
        \A u \in users :
            (u.user_name = resp.req.user_name /\ checkpw(resp.req.password, u.hash))
               => (resp.status = 200 /\ resp.out.payload.user_id = u.user_id)

====
